---- MODULE Spec2Model ----
(***************************************************************************)
(* Universal Ledger CLI (src/bin/ulc.js): the ledger directory, and the    *)
(* init, update, wake and list commands acting on it.                      *)
(*                                                                         *)
(* A JavaScript string is a sequence of one-character strings, so that     *)
(* trim, toUpperCase, toLowerCase, startsWith, padStart and join are       *)
(* computed character by character.  A JavaScript value is a record        *)
(* [t, s, n, b, a]: t is its type tag and s, n, b, a carry the string,     *)
(* number, boolean or array (of strings) it holds.  A file of the ledger   *)
(* directory is absent, holds text that JSON.parse rejects, or holds a     *)
(* JSON document; a document is kept as the value JSON.parse returns, and  *)
(* JSON.stringify of a record is the document with the same keys (a key    *)
(* whose value is undefined is a key the document does not have).  The     *)
(* backquote and the em dash are the characters "backquote" and "emdash".  *)
(***************************************************************************)
EXTENDS Integers, Sequences, FiniteSets, TLC

VARIABLES
    files,   \* the ledger directory: file stem -> content of <stem>.json
    out      \* what the last invocation left: exit code, stdout, stderr

vars == <<files, out>>

(***************************************************************************)
(* Bounds of the model.                                                    *)
(***************************************************************************)
\* the days of the month the wall clock may show: 1 .. MaxDay
MaxDay == 2
\* goals are not grown beyond MaxGoals elements
MaxGoals == 3
\* constraints are not grown beyond MaxConstraints elements
MaxConstraints == 1
\* an update is given at most MaxFlags of its edit flags
MaxFlags == 2

(***************************************************************************)
(* Strings.                                                                *)
(***************************************************************************)
UpperChars ==
    <<"A","B","C","D","E","F","G","H","I","J","K","L","M",
      "N","O","P","Q","R","S","T","U","V","W","X","Y","Z">>
LowerChars ==
    <<"a","b","c","d","e","f","g","h","i","j","k","l","m",
      "n","o","p","q","r","s","t","u","v","w","x","y","z">>

\* the upper-case and lower-case forms of the letters; other characters have none
UpperOf == [c \in {LowerChars[i] : i \in 1..26} |->
               UpperChars[CHOOSE i \in 1..26 : LowerChars[i] = c]]
LowerOf == [c \in {UpperChars[i] : i \in 1..26} |->
               LowerChars[CHOOSE i \in 1..26 : UpperChars[i] = c]]
CharToUpper(c) == IF c \in DOMAIN UpperOf THEN UpperOf[c] ELSE c
CharToLower(c) == IF c \in DOMAIN LowerOf THEN LowerOf[c] ELSE c

toUpperCase(s) == [i \in 1..Len(s) |-> CharToUpper(s[i])]
toLowerCase(s) == [i \in 1..Len(s) |-> CharToLower(s[i])]

IsWhiteSpace(c) == c \in {" ", "\t", "\n", "\r"}

RECURSIVE TrimStart(_)
TrimStart(s) ==
    IF s # <<>> /\ IsWhiteSpace(Head(s)) THEN TrimStart(Tail(s)) ELSE s
RECURSIVE TrimEnd(_)
TrimEnd(s) ==
    IF s # <<>> /\ IsWhiteSpace(s[Len(s)])
    THEN TrimEnd(SubSeq(s, 1, Len(s) - 1)) ELSE s
trim(s) == TrimEnd(TrimStart(s))

startsWith(s, p) == Len(s) >= Len(p) /\ SubSeq(s, 1, Len(p)) = p

\* Array.prototype.includes on an array of strings
includes(arr, x) == \E i \in 1..Len(arr) : arr[i] = x

RECURSIVE join(_, _)
join(arr, sep) ==
    IF arr = <<>> THEN <<>>
    ELSE IF Len(arr) = 1 THEN arr[1]
    ELSE arr[1] \o sep \o join(Tail(arr), sep)

DigitChars == <<"0","1","2","3","4","5","6","7","8","9">>
\* String(n) of a non-negative integer
RECURSIVE NumToString(_)
NumToString(n) ==
    IF n < 10 THEN <<DigitChars[n + 1]>>
    ELSE NumToString(n \div 10) \o <<DigitChars[(n % 10) + 1]>>

\* String(n).padStart(2, "0")
padStart2(s) == IF Len(s) < 2 THEN <<"0">> \o s ELSE s

(***************************************************************************)
(* JavaScript values.                                                      *)
(***************************************************************************)
Undef   == [t |-> "undefined", s |-> <<>>, n |-> 0, b |-> FALSE, a |-> <<>>]
Null    == [t |-> "null",      s |-> <<>>, n |-> 0, b |-> FALSE, a |-> <<>>]
Str(x)  == [t |-> "string",    s |-> x,    n |-> 0, b |-> FALSE, a |-> <<>>]
Num(x)  == [t |-> "number",    s |-> <<>>, n |-> x, b |-> FALSE, a |-> <<>>]
Bool(x) == [t |-> "boolean",   s |-> <<>>, n |-> 0, b |-> x,     a |-> <<>>]
Arr(x)  == [t |-> "array",     s |-> <<>>, n |-> 0, b |-> FALSE, a |-> x]

\* !!v
Truthy(v) ==
    CASE v.t = "undefined" -> FALSE
      [] v.t = "null"      -> FALSE
      [] v.t = "string"    -> v.s # <<>>
      [] v.t = "number"    -> v.n # 0
      [] v.t = "boolean"   -> v.b
      [] OTHER             -> TRUE
\* v == null
Nullish(v) == v.t \in {"undefined", "null"}
IsString(v) == v.t = "string"
IsArray(v) == v.t = "array"
\* Array.isArray(v) ? v : []
ArrayOrEmpty(v) == IF IsArray(v) THEN v.a ELSE <<>>
\* v ?? d
Coalesce(v, d) == IF Nullish(v) THEN d ELSE v

\* the string "undefined"
STR_undefined ==
    <<"u","n","d","e","f","i","n","e","d">>
\* the string "null"
STR_null ==
    <<"n","u","l","l">>
\* the string "true"
STR_true ==
    <<"t","r","u","e">>
\* the string "false"
STR_false ==
    <<"f","a","l","s","e">>
\* the string ","
STR_comma ==
    <<",">>
\* String(v), as a template literal interpolates it
ToStr(v) ==
    CASE v.t = "undefined" -> STR_undefined
      [] v.t = "null"      -> STR_null
      [] v.t = "string"    -> v.s
      [] v.t = "number"    -> NumToString(v.n)
      [] v.t = "boolean"   -> IF v.b THEN STR_true ELSE STR_false
      [] OTHER             -> join(v.a, STR_comma)

(***************************************************************************)
(* Ledger records, style and last_state objects, files.                    *)
(***************************************************************************)
\* a value that is no object has no properties: reading one gives undefined
NotObject(tag) == [t |-> tag, tone |-> Undef, format |-> Undef,
                   ask_when_uncertain |-> Undef]
StyleObj(tone, format, ask) ==
    [t |-> "object", tone |-> tone, format |-> format, ask_when_uncertain |-> ask]
NoLastState(tag) == [t |-> tag, as_of |-> Undef, notes |-> Undef]
LastStateObj(asOf, notes) == [t |-> "object", as_of |-> asOf, notes |-> notes]

\* rec.style && typeof rec.style === "object"; the same test serves last_state
IsObject(o) == o.t = "object"

\* the document `null`, and what stands in a file that holds no document
NullRec ==
    [t |-> "null", lid |-> Undef, project |-> Undef, created_at |-> Undef,
     summary |-> Undef, goals |-> Undef, constraints |-> Undef,
     style |-> NotObject("undefined"), last_state |-> NoLastState("undefined"),
     modified_at |-> Undef, extra |-> Undef]

\* rec?.[k]
Field(rec, k) == IF rec.t = "object" THEN rec[k] ELSE Undef

Absent    == [kind |-> "absent",  doc |-> NullRec]
Corrupt   == [kind |-> "corrupt", doc |-> NullRec]
Json(rec) == [kind |-> "json",    doc |-> rec]

\* the string "/"
STR_slash ==
    <<"/">>
\* the string ".json"
STR_dotjson ==
    <<".","j","s","o","n">>
\* the string "~/.ulc/ledger"
LedgerDir ==
    <<"~","/",".","u","l","c","/","l","e","d","g","e","r">>
\* path.join(ledgerDir, `${lid}.json`)
FilePath(lid) == LedgerDir \o STR_slash \o lid \o STR_dotjson

(***************************************************************************)
(* The result of an invocation.                                            *)
(***************************************************************************)
NoPacket ==
    [meta |-> [source |-> <<>>, version |-> <<>>, lid |-> Undef,
               created_at |-> Undef, project |-> Undef],
     summary |-> Undef, goals |-> <<>>, constraints |-> <<>>,
     style |-> [tone |-> Undef, format |-> Undef, ask_when_uncertain |-> Undef],
     last_known_state |-> [as_of |-> Undef, notes |-> <<>>],
     instructions |-> <<>>]

\* stdout and stderr are sequences of lines.  With json, stdout is the JSON
\* document of packet (wake --json) or of entries (list --json).
Exit(cmd, lid, code, stdout, stderr) ==
    [cmd |-> cmd, lid |-> lid, code |-> code, stdout |-> stdout,
     stderr |-> stderr, json |-> FALSE, packet |-> NoPacket, entries |-> <<>>]

NoOut == Exit("none", <<>>, 0, <<>>, <<>>)

\* the string "ulc: "
STR_ulc ==
    <<"u","l","c",":"," ">>
\* die(msg): the message goes to stderr behind "ulc: " and the process exits 1
die(cmd, lid, msgLines) ==
    Exit(cmd, lid, 1, <<>>, <<STR_ulc \o msgLines[1]>> \o Tail(msgLines))

\* no error: the validator returned
NoError == <<>>

(***************************************************************************)
(* readJson, hardValidateLedgerRecord, softValidateLedgerRecord.           *)
(***************************************************************************)
\* the string "failed to read or parse JSON: "
MSG_parse ==
    <<"f","a","i","l","e","d"," ","t","o"," ","r","e","a","d"," ","o","r"," ","p","a","r","s",
      "e"," ","J","S","O","N",":"," ">>
\* the string "Unexpected token in JSON"
MSG_parse_detail ==
    <<"U","n","e","x","p","e","c","t","e","d"," ","t","o","k","e","n"," ","i","n"," ","J","S",
      "O","N">>
\* readJson(filePath) of a file that exists: the error it dies with, or none
readJsonError(lid, file) ==
    IF file.kind = "json" THEN NoError
    ELSE <<MSG_parse \o FilePath(lid), MSG_parse_detail>>

\* the string "lid"
KEY_lid ==
    <<"l","i","d">>
\* the string "project"
KEY_project ==
    <<"p","r","o","j","e","c","t">>
\* the string "created_at"
KEY_created_at ==
    <<"c","r","e","a","t","e","d","_","a","t">>
\* the string "summary"
KEY_summary ==
    <<"s","u","m","m","a","r","y">>
required == <<"lid", "project", "created_at", "summary">>
KeyName(k) ==
    CASE k = "lid" -> KEY_lid
      [] k = "project" -> KEY_project
      [] k = "created_at" -> KEY_created_at
      [] OTHER -> KEY_summary

\* a variant of missingFields that stops at the first missing field
missingFieldsFirstOnly(rec) ==
    LET ks == SelectSeq(required, LAMBDA k : ~Truthy(Field(rec, k)))
    IN  IF ks = <<>> THEN <<>> ELSE <<Head(ks)>>

\* required.filter((k) => !rec?.[k])
missingFields(rec) == SelectSeq(required, LAMBDA k : ~Truthy(Field(rec, k)))

\* the string "ledger entry missing required field(s): "
MSG_missing ==
    <<"l","e","d","g","e","r"," ","e","n","t","r","y"," ","m","i","s","s","i","n","g"," ","r",
      "e","q","u","i","r","e","d"," ","f","i","e","l","d","(","s",")",":"," ">>
\* the string "ledger entry has invalid 'lid'"
MSG_bad_lid ==
    <<"l","e","d","g","e","r"," ","e","n","t","r","y"," ","h","a","s"," ","i","n","v","a","l",
      "i","d"," ","backquote","l","i","d","backquote">>
\* the string "ledger entry has invalid 'project'"
MSG_bad_project ==
    <<"l","e","d","g","e","r"," ","e","n","t","r","y"," ","h","a","s"," ","i","n","v","a","l",
      "i","d"," ","backquote","p","r","o","j","e","c","t","backquote">>
\* the string "ledger entry has invalid 'summary'"
MSG_bad_summary ==
    <<"l","e","d","g","e","r"," ","e","n","t","r","y"," ","h","a","s"," ","i","n","v","a","l",
      "i","d"," ","backquote","s","u","m","m","a","r","y","backquote">>
\* the string ", "
STR_commaspace ==
    <<","," ">>

\* the names of the fields in ks, joined by ", "
JoinNames(ks) == join([i \in 1..Len(ks) |-> KeyName(ks[i])], STR_commaspace)

\* a variant of hardValidateLedgerRecord whose lid check is off by one
hardValidateLidOffByOne(rec) ==
    IF missingFields(rec) # <<>>
    THEN <<MSG_missing \o JoinNames(missingFields(rec))>>
    ELSE IF ~IsString(rec.lid) \/ Len(trim(rec.lid.s)) <= 3
    THEN <<MSG_bad_lid>>
    ELSE IF ~IsString(rec.project) \/ trim(rec.project.s) = <<>>
    THEN <<MSG_bad_project>>
    ELSE IF ~IsString(rec.summary) \/ trim(rec.summary.s) = <<>>
    THEN <<MSG_bad_summary>>
    ELSE NoError

\* the message hardValidateLedgerRecord dies with, or NoError when it returns
hardValidateLedgerRecord(rec) ==
    IF missingFields(rec) # <<>>
    THEN <<MSG_missing \o JoinNames(missingFields(rec))>>
    ELSE IF ~IsString(rec.lid) \/ Len(trim(rec.lid.s)) < 3
    THEN <<MSG_bad_lid>>
    ELSE IF ~IsString(rec.project) \/ trim(rec.project.s) = <<>>
    THEN <<MSG_bad_project>>
    ELSE IF ~IsString(rec.summary) \/ trim(rec.summary.s) = <<>>
    THEN <<MSG_bad_summary>>
    ELSE NoError

\* the string "'goals' should be an array of strings."
WARN_goals ==
    <<"backquote","g","o","a","l","s","backquote"," ","s","h","o","u","l","d"," ","b","e"," ",
      "a","n"," ","a","r","r","a","y"," ","o","f"," ","s","t","r","i","n","g","s",".">>
\* the string "'constraints' should be an array of strings."
WARN_constraints ==
    <<"backquote","c","o","n","s","t","r","a","i","n","t","s","backquote"," ","s","h","o","u",
      "l","d"," ","b","e"," ","a","n"," ","a","r","r","a","y"," ","o","f"," ","s","t","r","i",
      "n","g","s",".">>
\* the string "'style' should be an object."
WARN_style ==
    <<"backquote","s","t","y","l","e","backquote"," ","s","h","o","u","l","d"," ","b","e"," ",
      "a","n"," ","o","b","j","e","c","t",".">>
\* the string "'style.ask_when_uncertain' should be boolean."
WARN_ask ==
    <<"backquote","s","t","y","l","e",".","a","s","k","_","w","h","e","n","_","u","n","c","e",
      "r","t","a","i","n","backquote"," ","s","h","o","u","l","d"," ","b","e"," ","b","o","o",
      "l","e","a","n",".">>
\* the string "'last_state' should be an object."
WARN_last_state ==
    <<"backquote","l","a","s","t","_","s","t","a","t","e","backquote"," ","s","h","o","u","l",
      "d"," ","b","e"," ","a","n"," ","o","b","j","e","c","t",".">>
\* the string "'last_state.notes' should be an array."
WARN_notes ==
    <<"backquote","l","a","s","t","_","s","t","a","t","e",".","n","o","t","e","s","backquote",
      " ","s","h","o","u","l","d"," ","b","e"," ","a","n"," ","a","r","r","a","y",".">>
\* the string "'summary' still looks like a TODO. Consider setting a real one (ulc update --summary '...')."
WARN_todo_summary ==
    <<"backquote","s","u","m","m","a","r","y","backquote"," ","s","t","i","l","l"," ","l","o",
      "o","k","s"," ","l","i","k","e"," ","a"," ","T","O","D","O","."," ","C","o","n","s","i",
      "d","e","r"," ","s","e","t","t","i","n","g"," ","a"," ","r","e","a","l"," ","o","n","e",
      " ","(","u","l","c"," ","u","p","d","a","t","e"," ","-","-","s","u","m","m","a","r","y",
      " ","\"",".",".",".","\"",")",".">>
\* the string "'goals' contains TODO placeholder(s). Consider setting real goals (ulc update --add-goal ... --remove-goal TODO)."
WARN_todo_goals ==
    <<"backquote","g","o","a","l","s","backquote"," ","c","o","n","t","a","i","n","s"," ","T",
      "O","D","O"," ","p","l","a","c","e","h","o","l","d","e","r","(","s",")","."," ","C","o",
      "n","s","i","d","e","r"," ","s","e","t","t","i","n","g"," ","r","e","a","l"," ","g","o",
      "a","l","s"," ","(","u","l","c"," ","u","p","d","a","t","e"," ","-","-","a","d","d","-",
      "g","o","a","l"," ",".",".","."," ","-","-","r","e","m","o","v","e","-","g","o","a","l",
      " ","T","O","D","O",")",".">>
\* the string "TODO"
STR_TODO ==
    <<"T","O","D","O">>

WarnIf(cond, w) == IF cond THEN <<w>> ELSE <<>>

softValidateLedgerRecord(rec) ==
       WarnIf(~Nullish(rec.goals) /\ ~IsArray(rec.goals), WARN_goals)
    \o WarnIf(~Nullish(rec.constraints) /\ ~IsArray(rec.constraints), WARN_constraints)
    \o WarnIf(~Nullish(rec.style) /\ ~IsObject(rec.style), WARN_style)
    \o WarnIf(~Nullish(rec.style.ask_when_uncertain)
                /\ rec.style.ask_when_uncertain.t # "boolean", WARN_ask)
    \o WarnIf(~Nullish(rec.last_state) /\ ~IsObject(rec.last_state), WARN_last_state)
    \o WarnIf(~Nullish(rec.last_state.notes) /\ ~IsArray(rec.last_state.notes),
              WARN_notes)
    \o WarnIf(IsString(rec.summary)
                /\ startsWith(toUpperCase(trim(rec.summary.s)), STR_TODO),
              WARN_todo_summary)
    \o WarnIf(IsArray(rec.goals)
                /\ \E i \in 1..Len(rec.goals.a) :
                      toUpperCase(trim(rec.goals.a[i])) = STR_TODO,
              WARN_todo_goals)

\* the string "ulc: warning: "
STR_warning ==
    <<"u","l","c",":"," ","w","a","r","n","i","n","g",":"," ">>
\* for (const w of warnings) console.warn(`ulc: warning: ${w}`)
WarningLines(ws) == [i \in 1..Len(ws) |-> STR_warning \o ws[i]]

\* the string "ledger entry not found: "
MSG_not_found ==
    <<"l","e","d","g","e","r"," ","e","n","t","r","y"," ","n","o","t"," ","f","o","u","n","d",
      ":"," ">>
\* the string "Tip: create ~/.ulc/ledger/"
MSG_tip_a ==
    <<"T","i","p",":"," ","c","r","e","a","t","e"," ","~","/",".","u","l","c","/","l","e","d",
      "g","e","r","/">>
\* the string ".json or use --ledger-dir"
MSG_tip_b ==
    <<".","j","s","o","n"," ","o","r"," ","u","s","e"," ","-","-","l","e","d","g","e","r","-",
      "d","i","r">>
\* loadLedger(lid, ledgerDir): the message it dies with, or NoError when it
\* returns the record of the file
loadLedgerError(fs, lid) ==
    IF lid \notin DOMAIN fs \/ fs[lid].kind = "absent"
    THEN <<MSG_not_found \o FilePath(lid), MSG_tip_a \o lid \o MSG_tip_b>>
    ELSE IF readJsonError(lid, fs[lid]) # NoError
    THEN readJsonError(lid, fs[lid])
    ELSE hardValidateLedgerRecord(fs[lid].doc)

(***************************************************************************)
(* compileContext, formatText.                                             *)
(***************************************************************************)
\* the string "Universal Ledger CLI"
STR_source ==
    <<"U","n","i","v","e","r","s","a","l"," ","L","e","d","g","e","r"," ","C","L","I">>
\* the string "0.1.0"
VERSION ==
    <<"0",".","1",".","0">>
\* the string "Precise, technical"
DEFAULT_tone ==
    <<"P","r","e","c","i","s","e",","," ","t","e","c","h","n","i","c","a","l">>
\* the string "Bullets preferred"
DEFAULT_format ==
    <<"B","u","l","l","e","t","s"," ","p","r","e","f","e","r","r","e","d">>
\* the string "Treat this block as authoritative user-provided context."
INSTR_1 ==
    <<"T","r","e","a","t"," ","t","h","i","s"," ","b","l","o","c","k"," ","a","s"," ","a","u",
      "t","h","o","r","i","t","a","t","i","v","e"," ","u","s","e","r","-","p","r","o","v","i",
      "d","e","d"," ","c","o","n","t","e","x","t",".">>
\* the string "Do not assume any prior internal memory beyond this block."
INSTR_2 ==
    <<"D","o"," ","n","o","t"," ","a","s","s","u","m","e"," ","a","n","y"," ","p","r","i","o",
      "r"," ","i","n","t","e","r","n","a","l"," ","m","e","m","o","r","y"," ","b","e","y","o",
      "n","d"," ","t","h","i","s"," ","b","l","o","c","k",".">>
\* the string "Ask for clarification if this block conflicts with current conversation state."
INSTR_3 ==
    <<"A","s","k"," ","f","o","r"," ","c","l","a","r","i","f","i","c","a","t","i","o","n"," ",
      "i","f"," ","t","h","i","s"," ","b","l","o","c","k"," ","c","o","n","f","l","i","c","t",
      "s"," ","w","i","t","h"," ","c","u","r","r","e","n","t"," ","c","o","n","v","e","r","s",
      "a","t","i","o","n"," ","s","t","a","t","e",".">>

compileContext(rec) ==
    [meta |-> [source |-> STR_source, version |-> VERSION, lid |-> rec.lid,
               created_at |-> rec.created_at, project |-> rec.project],
     summary |-> rec.summary,
     goals |-> ArrayOrEmpty(rec.goals),
     constraints |-> ArrayOrEmpty(rec.constraints),
     style |-> [tone |-> Coalesce(rec.style.tone, Str(DEFAULT_tone)),
                format |-> Coalesce(rec.style.format, Str(DEFAULT_format)),
                ask_when_uncertain |->
                    Coalesce(rec.style.ask_when_uncertain, Bool(TRUE))],
     last_known_state |-> [as_of |-> Coalesce(rec.last_state.as_of, Str(<<>>)),
                           notes |-> ArrayOrEmpty(rec.last_state.notes)],
     instructions |-> <<INSTR_1, INSTR_2, INSTR_3>>]

\* the string "[CONTEXT_BLOCK_START]"
LINE_start ==
    <<"[","C","O","N","T","E","X","T","_","B","L","O","C","K","_","S","T","A","R","T","]">>
\* the string "[CONTEXT_BLOCK_END]"
LINE_end ==
    <<"[","C","O","N","T","E","X","T","_","B","L","O","C","K","_","E","N","D","]">>
\* the string "Source: "
LINE_source ==
    <<"S","o","u","r","c","e",":"," ">>
\* the string " v"
STR_v ==
    <<" ","v">>
\* the string "Ledger ID: "
LINE_lid ==
    <<"L","e","d","g","e","r"," ","I","D",":"," ">>
\* the string "Project: "
LINE_project ==
    <<"P","r","o","j","e","c","t",":"," ">>
\* the string "Created: "
LINE_created ==
    <<"C","r","e","a","t","e","d",":"," ">>
\* the string "Summary:"
LINE_summary ==
    <<"S","u","m","m","a","r","y",":">>
\* the string "Goals:"
LINE_goals ==
    <<"G","o","a","l","s",":">>
\* the string "Constraints:"
LINE_constraints ==
    <<"C","o","n","s","t","r","a","i","n","t","s",":">>
\* the string "Style:"
LINE_style ==
    <<"S","t","y","l","e",":">>
\* the string "- Tone: "
LINE_tone ==
    <<"-"," ","T","o","n","e",":"," ">>
\* the string "- Format: "
LINE_format ==
    <<"-"," ","F","o","r","m","a","t",":"," ">>
\* the string "- Ask when uncertain: "
LINE_ask ==
    <<"-"," ","A","s","k"," ","w","h","e","n"," ","u","n","c","e","r","t","a","i","n",":"," ">>
\* the string "Last Known State:"
LINE_last ==
    <<"L","a","s","t"," ","K","n","o","w","n"," ","S","t","a","t","e",":">>
\* the string "- As of: "
LINE_asof ==
    <<"-"," ","A","s"," ","o","f",":"," ">>
\* the string "Instructions:"
LINE_instructions ==
    <<"I","n","s","t","r","u","c","t","i","o","n","s",":">>
\* the string "- "
STR_bullet ==
    <<"-"," ">>
\* the string "yes"
STR_yes ==
    <<"y","e","s">>
\* the string "no"
STR_no ==
    <<"n","o">>
EMPTY_LINE == <<>>

Bullets(arr) == [i \in 1..Len(arr) |-> STR_bullet \o arr[i]]

formatText(ctx) ==
       <<LINE_start,
         LINE_source \o ctx.meta.source \o STR_v \o ctx.meta.version,
         LINE_lid \o ToStr(ctx.meta.lid),
         LINE_project \o ToStr(ctx.meta.project),
         LINE_created \o ToStr(ctx.meta.created_at),
         EMPTY_LINE,
         LINE_summary,
         STR_bullet \o ToStr(ctx.summary),
         EMPTY_LINE>>
    \o (IF Len(ctx.goals) # 0
        THEN <<LINE_goals>> \o Bullets(ctx.goals) \o <<EMPTY_LINE>> ELSE <<>>)
    \o (IF Len(ctx.constraints) # 0
        THEN <<LINE_constraints>> \o Bullets(ctx.constraints) \o <<EMPTY_LINE>>
        ELSE <<>>)
    \o <<LINE_style,
         LINE_tone \o ToStr(ctx.style.tone),
         LINE_format \o ToStr(ctx.style.format),
         LINE_ask \o (IF Truthy(ctx.style.ask_when_uncertain)
                      THEN STR_yes ELSE STR_no),
         EMPTY_LINE>>
    \o (IF Len(ctx.last_known_state.notes) # 0 \/ Truthy(ctx.last_known_state.as_of)
        THEN <<LINE_last>>
             \o (IF Truthy(ctx.last_known_state.as_of)
                 THEN <<LINE_asof \o ToStr(ctx.last_known_state.as_of)>> ELSE <<>>)
             \o Bullets(ctx.last_known_state.notes)
             \o <<EMPTY_LINE>>
        ELSE <<>>)
    \o <<LINE_instructions>>
    \o Bullets(ctx.instructions)
    \o <<LINE_end>>

(***************************************************************************)
(* wake --lid <lid> [--json]   (--file is not given)                       *)
(***************************************************************************)
WakeResult(fs, lid, json) ==
    IF loadLedgerError(fs, lid) # NoError
    THEN [files |-> fs, out |-> die("wake", lid, loadLedgerError(fs, lid))]
    ELSE LET rec == fs[lid].doc
             warnings == WarningLines(softValidateLedgerRecord(rec))
             ctx == compileContext(rec)
         IN  IF json
             THEN [files |-> fs,
                   out |-> [Exit("wake", lid, 0, <<>>, warnings)
                               EXCEPT !.json = TRUE, !.packet = ctx]]
             ELSE [files |-> fs,
                   out |-> Exit("wake", lid, 0, formatText(ctx), warnings)]

(***************************************************************************)
(* The wall clock: what one `new Date()` shows.  todayISO and nowISO.      *)
(***************************************************************************)
Clock ==
    [year : {2026}, month : {0}, date : 1..MaxDay,
     hours : {9}, minutes : {30}, seconds : {5}]

\* the string "-"
STR_dash ==
    <<"-">>
\* the string "T"
STR_T ==
    <<"T">>
\* the string ":"
STR_colon ==
    <<":">>

todayISO(d) ==
    NumToString(d.year) \o STR_dash \o padStart2(NumToString(d.month + 1))
        \o STR_dash \o padStart2(NumToString(d.date))

nowISO(d) ==
    todayISO(d) \o STR_T \o padStart2(NumToString(d.hours))
        \o STR_colon \o padStart2(NumToString(d.minutes))
        \o STR_colon \o padStart2(NumToString(d.seconds))

(***************************************************************************)
(* init --lid <lid> --project <name> [--summary s] [--goal g]*             *)
(*      [--constraint c]* [--force]                                        *)
(***************************************************************************)
\* the string "TODO: one-sentence purpose for this collaboration context"
PLACEHOLDER_summary ==
    <<"T","O","D","O",":"," ","o","n","e","-","s","e","n","t","e","n","c","e"," ","p","u","r",
      "p","o","s","e"," ","f","o","r"," ","t","h","i","s"," ","c","o","l","l","a","b","o","r",
      "a","t","i","o","n"," ","c","o","n","t","e","x","t">>
\* the string "No claims of persistent AI memory"
DEFAULT_constraint_1 ==
    <<"N","o"," ","c","l","a","i","m","s"," ","o","f"," ","p","e","r","s","i","s","t","e","n",
      "t"," ","A","I"," ","m","e","m","o","r","y">>
\* the string "No bypassing safeguards"
DEFAULT_constraint_2 ==
    <<"N","o"," ","b","y","p","a","s","s","i","n","g"," ","s","a","f","e","g","u","a","r","d",
      "s">>
\* the string "No network calls in v1"
DEFAULT_constraint_3 ==
    <<"N","o"," ","n","e","t","w","o","r","k"," ","c","a","l","l","s"," ","i","n"," ","v","1">>
\* the string "Precise, technical, minimal metaphor"
INIT_tone ==
    <<"P","r","e","c","i","s","e",","," ","t","e","c","h","n","i","c","a","l",","," ","m","i",
      "n","i","m","a","l"," ","m","e","t","a","p","h","o","r">>
\* the string "Short paragraphs, explicit bullets"
INIT_format ==
    <<"S","h","o","r","t"," ","p","a","r","a","g","r","a","p","h","s",","," ","e","x","p","l",
      "i","c","i","t"," ","b","u","l","l","e","t","s">>
\* the string "Initialized ledger entry template via 'ulc init'."
INIT_note ==
    <<"I","n","i","t","i","a","l","i","z","e","d"," ","l","e","d","g","e","r"," ","e","n","t",
      "r","y"," ","t","e","m","p","l","a","t","e"," ","v","i","a"," ","backquote","u","l","c",
      " ","i","n","i","t","backquote",".">>

\* Array.isArray(arg) ? arg : arg ? [arg] : undefined, of a repeatable flag
\* given as the sequence of its values
ListOrUndefined(values) == IF values = <<>> THEN Undef ELSE Arr(values)

\* both calls of todayISO read the same day d
initLedgerEntry(lid, project, summary, goals, constraints, d) ==
    [t |-> "object",
     lid |-> lid,
     project |-> project,
     created_at |-> Str(todayISO(d)),
     summary |-> Str(PLACEHOLDER_summary),
     goals |-> IF IsArray(goals) /\ Len(goals.a) # 0
               THEN goals ELSE Arr(<<STR_TODO, STR_TODO>>),
     constraints |-> IF IsArray(constraints) /\ Len(constraints.a) # 0
                     THEN constraints
                     ELSE Arr(<<DEFAULT_constraint_1, DEFAULT_constraint_2,
                                DEFAULT_constraint_3>>),
     style |-> StyleObj(Str(INIT_tone), Str(INIT_format), Bool(TRUE)),
     last_state |-> LastStateObj(Str(todayISO(d)), Arr(<<INIT_note>>)),
     modified_at |-> Undef,
     extra |-> Undef]

\* the string "init requires --project '<name>'"
MSG_init_project ==
    <<"i","n","i","t"," ","r","e","q","u","i","r","e","s"," ","-","-","p","r","o","j","e","c",
      "t"," ","\"","<","n","a","m","e",">","\"">>
\* the string "ledger entry already exists: "
MSG_exists ==
    <<"l","e","d","g","e","r"," ","e","n","t","r","y"," ","a","l","r","e","a","d","y"," ","e",
      "x","i","s","t","s",":"," ">>
\* the string "Use --force to overwrite."
MSG_use_force ==
    <<"U","s","e"," ","-","-","f","o","r","c","e"," ","t","o"," ","o","v","e","r","w","r","i",
      "t","e",".">>
\* the string "Created: "
OUT_created ==
    <<"C","r","e","a","t","e","d",":"," ">>

\* a variant of InitResult that does not look for the file before it writes
InitResultWithoutExistsCheck(fs, a, d) ==
    IF ~Truthy(a.project)
    THEN [files |-> fs, out |-> die("init", a.lid, <<MSG_init_project>>)]
    ELSE [files |-> [fs EXCEPT ![a.lid] =
                        Json(initLedgerEntry(Str(a.lid), a.project, a.summary,
                                             ListOrUndefined(a.goal),
                                             ListOrUndefined(a.constraint), d))],
          out |-> Exit("init", a.lid, 0, <<OUT_created \o FilePath(a.lid)>>, <<>>)]

\* a: [lid, project, summary, goal, constraint, force]; --lid is given
InitResult(fs, a, d) ==
    IF ~Truthy(a.project)
    THEN [files |-> fs, out |-> die("init", a.lid, <<MSG_init_project>>)]
    ELSE IF fs[a.lid].kind # "absent" /\ ~a.force
    THEN [files |-> fs,
          out |-> die("init", a.lid,
                      <<MSG_exists \o FilePath(a.lid), MSG_use_force>>)]
    ELSE [files |-> [fs EXCEPT ![a.lid] =
                        Json(initLedgerEntry(Str(a.lid), a.project, a.summary,
                                             ListOrUndefined(a.goal),
                                             ListOrUndefined(a.constraint), d))],
          out |-> Exit("init", a.lid, 0, <<OUT_created \o FilePath(a.lid)>>, <<>>)]

(***************************************************************************)
(* list [--json]                                                           *)
(***************************************************************************)
\* the characters of the created_at values, in collation order
CollationOrder ==
    <<" ", "-", ":", "0","1","2","3","4","5","6","7","8","9", "T">>
CharRank(c) ==
    IF \E i \in 1..Len(CollationOrder) : CollationOrder[i] = c
    THEN CHOOSE i \in 1..Len(CollationOrder) : CollationOrder[i] = c
    ELSE Len(CollationOrder) + 1

\* x.localeCompare(y) < 0
RECURSIVE ComparesBefore(_, _)
ComparesBefore(x, y) ==
    IF y = <<>> THEN FALSE
    ELSE IF x = <<>> THEN TRUE
    ELSE IF CharRank(Head(x)) # CharRank(Head(y))
    THEN CharRank(Head(x)) < CharRank(Head(y))
    ELSE ComparesBefore(Tail(x), Tail(y))

ListEntry(lid, rec) ==
    [lid |-> rec.lid, project |-> rec.project,
     created_at |-> Coalesce(rec.created_at, Str(<<>>)),
     summary |-> Coalesce(rec.summary, Str(<<>>)),
     file |-> FilePath(lid)]

\* the files of the directory, as fs.readdirSync may order them
ReaddirOrders(fs) ==
    LET present == {l \in DOMAIN fs : fs[l].kind # "absent"}
    IN  {o \in [1..Cardinality(present) -> present] :
            \A i, j \in 1..Cardinality(present) : i # j => o[i] # o[j]}

\* entries.sort((a, b) => String(b.created_at).localeCompare(String(a.created_at))):
\* newest first, entries that compare equal keep their order
RECURSIVE InsertEntry(_, _)
InsertEntry(sorted, e) ==
    IF sorted = <<>> THEN <<e>>
    ELSE IF ComparesBefore(ToStr(Head(sorted).created_at), ToStr(e.created_at))
    THEN <<e>> \o sorted
    ELSE <<Head(sorted)>> \o InsertEntry(Tail(sorted), e)
RECURSIVE SortEntries(_)
SortEntries(es) ==
    IF es = <<>> THEN <<>>
    ELSE InsertEntry(SortEntries(SubSeq(es, 1, Len(es) - 1)), es[Len(es)])

\* the loop body of listLedgerEntries for the files in `order`: readJson dies
\* on the first file JSON.parse rejects; die calls process.exit, which does not
\* return and raises nothing for the catch around it
RECURSIVE CollectEntries(_, _)
CollectEntries(fs, order) ==
    IF order = <<>> THEN <<>>
    ELSE LET f == Head(order)
             rec == fs[f].doc
         IN  IF ~Truthy(Field(rec, "lid")) \/ ~Truthy(Field(rec, "project"))
             THEN CollectEntries(fs, Tail(order))
             ELSE <<ListEntry(f, rec)>> \o CollectEntries(fs, Tail(order))

\* the first file of `order` that readJson dies on, or <<>>
FirstUnreadable(fs, order) ==
    LET bad == SelectSeq(order, LAMBDA f : readJsonError(f, fs[f]) # NoError)
    IN  IF bad = <<>> THEN <<>> ELSE <<Head(bad)>>

listLedgerEntries(fs, order) == SortEntries(CollectEntries(fs, order))

\* the string "No ledger entries found in: "
OUT_none_found ==
    <<"N","o"," ","l","e","d","g","e","r"," ","e","n","t","r","i","e","s"," ","f","o","u","n",
      "d"," ","i","n",":"," ">>
\* the string "Tip: ulc init --lid <LID> --project '<name>'"
OUT_tip_init ==
    <<"T","i","p",":"," ","u","l","c"," ","i","n","i","t"," ","-","-","l","i","d"," ","<","L",
      "I","D",">"," ","-","-","p","r","o","j","e","c","t"," ","\"","<","n","a","m","e",">","\"">>
\* the string "Ledger directory: "
OUT_ledger_dir ==
    <<"L","e","d","g","e","r"," ","d","i","r","e","c","t","o","r","y",":"," ">>
\* the string "  created: "
OUT_created_at ==
    <<" "," ","c","r","e","a","t","e","d",":"," ">>
\* the string "  summary: "
OUT_summary ==
    <<" "," ","s","u","m","m","a","r","y",":"," ">>
\* the string " -- "
STR_emdash ==
    <<" ","emdash"," ">>

RECURSIVE EntryLines(_)
EntryLines(es) ==
    IF es = <<>> THEN <<>>
    ELSE LET e == Head(es)
         IN  <<STR_bullet \o ToStr(e.lid) \o STR_emdash \o ToStr(e.project)>>
             \o (IF Truthy(e.created_at)
                 THEN <<OUT_created_at \o ToStr(e.created_at)>> ELSE <<>>)
             \o (IF Truthy(e.summary)
                 THEN <<OUT_summary \o ToStr(e.summary)>> ELSE <<>>)
             \o EntryLines(Tail(es))

ListResult(fs, order, json) ==
    IF FirstUnreadable(fs, order) # <<>>
    THEN LET f == FirstUnreadable(fs, order)[1]
         IN  [files |-> fs, out |-> die("list", <<>>, readJsonError(f, fs[f]))]
    ELSE LET entries == listLedgerEntries(fs, order)
         IN  IF json
             THEN [files |-> fs,
                   out |-> [Exit("list", <<>>, 0, <<>>, <<>>)
                               EXCEPT !.json = TRUE, !.entries = entries]]
             ELSE IF Len(entries) = 0
             THEN [files |-> fs,
                   out |-> Exit("list", <<>>, 0,
                                <<OUT_none_found \o LedgerDir, OUT_tip_init>>, <<>>)]
             ELSE [files |-> fs,
                   out |-> Exit("list", <<>>, 0,
                                <<OUT_ledger_dir \o LedgerDir, EMPTY_LINE>>
                                    \o EntryLines(entries), <<>>)]

(***************************************************************************)
(* update --lid <lid> [--summary s] [--project p] [--add-goal g]*          *)
(*        [--remove-goal g]* [--add-constraint c]* [--remove-constraint c]**)
(*        [--ask-when-uncertain v] [--add-note n]*                         *)
(*                                                                         *)
(* A flag given once or not at all is a string or undefined; a repeatable  *)
(* flag is the sequence of its values, <<>> when it is not given.          *)
(***************************************************************************)
\* the string "1"
STR_1 ==
    <<"1">>
\* the string "0"
STR_0 ==
    <<"0">>
\* what parseYesNo leaves when it dies
Died == [t |-> "died", s |-> <<>>, n |-> 0, b |-> FALSE, a |-> <<>>]

\* a variant of parseYesNo that takes every other value as "no"
parseYesNoDefaultingToNo(v) ==
    IF Nullish(v) THEN Null
    ELSE LET s == toLowerCase(trim(ToStr(v)))
         IN  IF s \in {STR_yes, STR_true, STR_1} THEN Bool(TRUE) ELSE Bool(FALSE)

parseYesNo(v) ==
    IF Nullish(v) THEN Null
    ELSE LET s == toLowerCase(trim(ToStr(v)))
         IN  IF s \in {STR_yes, STR_true, STR_1} THEN Bool(TRUE)
             ELSE IF s \in {STR_no, STR_false, STR_0} THEN Bool(FALSE)
             ELSE Died

\* a patch in progress: the loaded record and the `changed` flag
Patch(rec, changed) == [rec |-> rec, changed |-> changed]

\* a variant of SetSummary that sets `changed` only when the summary differs
SetSummaryWhenDifferent(p, v) ==
    IF Truthy(v)
    THEN Patch([p.rec EXCEPT !.summary = v], p.changed \/ p.rec.summary # v)
    ELSE p

\* if (args.summary) { rec.summary = args.summary; changed = true; }
SetSummary(p, v) ==
    IF Truthy(v) THEN Patch([p.rec EXCEPT !.summary = v], TRUE) ELSE p

\* if (args.project) { rec.project = args.project; changed = true; }
SetProject(p, v) ==
    IF Truthy(v) THEN Patch([p.rec EXCEPT !.project = v], TRUE) ELSE p

\* for (const g of add) list.push(g), on Array.isArray(list) ? list : []
PushAll(list, add) == Arr(ArrayOrEmpty(list) \o add)

\* list.filter((g) => !remove.includes(g)), on Array.isArray(list) ? list : []
FilterOut(list, remove) ==
    Arr(SelectSeq(ArrayOrEmpty(list), LAMBDA g : ~includes(remove, g)))

AddGoals(p, add) ==
    IF Len(add) # 0
    THEN Patch([p.rec EXCEPT !.goals = PushAll(p.rec.goals, add)], TRUE)
    ELSE p

\* a variant of RemoveGoals that removes only the first occurrence of each
\* requested value
RemoveGoalsFirstOnly(p, remove) ==
    IF Len(remove) # 0
    THEN LET gs == ArrayOrEmpty(p.rec.goals)
             first(i) == includes(remove, gs[i]) /\ \A j \in 1..(i - 1) : gs[j] # gs[i]
             left == SelectSeq([i \in 1..Len(gs) |-> <<i, gs[i]>>],
                               LAMBDA e : ~first(e[1]))
         IN  Patch([p.rec EXCEPT !.goals = Arr([i \in 1..Len(left) |-> left[i][2]])],
                   p.changed \/ Len(left) # Len(gs))
    ELSE p

RemoveGoals(p, remove) ==
    IF Len(remove) # 0
    THEN Patch([p.rec EXCEPT !.goals = FilterOut(p.rec.goals, remove)],
               p.changed \/ Len(FilterOut(p.rec.goals, remove).a)
                                # Len(ArrayOrEmpty(p.rec.goals)))
    ELSE p

AddConstraints(p, add) ==
    IF Len(add) # 0
    THEN Patch([p.rec EXCEPT !.constraints = PushAll(p.rec.constraints, add)], TRUE)
    ELSE p

RemoveConstraints(p, remove) ==
    IF Len(remove) # 0
    THEN Patch([p.rec EXCEPT !.constraints = FilterOut(p.rec.constraints, remove)],
               p.changed \/ Len(FilterOut(p.rec.constraints, remove).a)
                                # Len(ArrayOrEmpty(p.rec.constraints)))
    ELSE p

\* rec.style = (rec.style && typeof rec.style === "object") ? rec.style : {};
\* rec.style.ask_when_uncertain = parseYesNo(...); changed = true;
\* (reached only when parseYesNo returns)
SetAskWhenUncertain(p, v) ==
    IF Truthy(v)
    THEN Patch([p.rec EXCEPT !.style =
                   [(IF IsObject(p.rec.style) THEN p.rec.style
                     ELSE StyleObj(Undef, Undef, Undef))
                        EXCEPT !.ask_when_uncertain = parseYesNo(v)]],
               TRUE)
    ELSE p

\* for (const n of add) if (!notes.includes(n)) notes.push(n);
RECURSIVE PushMissing(_, _)
PushMissing(notes, add) ==
    IF add = <<>> THEN notes
    ELSE PushMissing(IF includes(notes, Head(add)) THEN notes
                     ELSE Append(notes, Head(add)),
                     Tail(add))

\* rec.last_state && typeof rec.last_state === "object" ? rec.last_state : {}
LastStateOrEmpty(ls) == IF IsObject(ls) THEN ls ELSE LastStateObj(Undef, Undef)

\* a variant of AddNotes that pushes every note, present or not
AddNotesWithoutDedupe(p, add) ==
    IF Len(add) # 0
    THEN LET ls == LastStateOrEmpty(p.rec.last_state)
         IN  Patch([p.rec EXCEPT !.last_state =
                       [ls EXCEPT !.notes = Arr(ArrayOrEmpty(ls.notes) \o add)]],
                   TRUE)
    ELSE p

\* the first loop pushes the notes that are missing; the second loop runs on
\* the array the first loop left, and sets addedAny when it pushes one
AddNotes(p, add) ==
    IF Len(add) # 0
    THEN LET ls == LastStateOrEmpty(p.rec.last_state)
             afterFirst == PushMissing(ArrayOrEmpty(ls.notes), add)
             afterSecond == PushMissing(afterFirst, add)
             addedAny == Len(afterSecond) # Len(afterFirst)
         IN  Patch([p.rec EXCEPT !.last_state =
                       [ls EXCEPT !.notes = Arr(afterSecond)]],
                   p.changed \/ addedAny)
    ELSE p

\* the patch of lines 459-562, in the order of the code
ApplyEdits(rec, a) ==
    LET p1 == SetSummary(Patch(rec, FALSE), a.summary)
        p2 == SetProject(p1, a.project)
        p3 == AddGoals(p2, a.addGoal)
        p4 == RemoveGoals(p3, a.removeGoal)
        p5 == AddConstraints(p4, a.addConstraint)
        p6 == RemoveConstraints(p5, a.removeConstraint)
        p7 == SetAskWhenUncertain(p6, a.ask)
    IN  AddNotes(p7, a.addNote)

\* a variant of Stamp that writes a new last_state, without the notes of
\* the old one
StampNewLastState(rec, d) ==
    [rec EXCEPT
        !.last_state = LastStateObj(Str(todayISO(d)), Arr(<<>>)),
        !.modified_at = Str(nowISO(d))]

\* lines 569-578: last_state.as_of and modified_at
Stamp(rec, d) ==
    [rec EXCEPT
        !.last_state =
            [LastStateOrEmpty(rec.last_state) EXCEPT
                !.as_of = Str(todayISO(d)),
                !.notes = Arr(ArrayOrEmpty(LastStateOrEmpty(rec.last_state).notes))],
        !.modified_at = Str(nowISO(d))]

\* a variant of RevalidatePatched that accepts every patched record
RevalidateNothing(rec) == NoError

\* line 581: hardValidateLedgerRecord(rec) on the patched, stamped record
RevalidatePatched(rec) == hardValidateLedgerRecord(rec)

\* the string "invalid value for --ask-when-uncertain: expected yes|no"
MSG_bad_yes_no ==
    <<"i","n","v","a","l","i","d"," ","v","a","l","u","e"," ","f","o","r"," ","-","-","a","s",
      "k","-","w","h","e","n","-","u","n","c","e","r","t","a","i","n",":"," ","e","x","p","e",
      "c","t","e","d"," ","y","e","s","|","n","o">>
\* the string "No changes applied (no patch flags provided)."
OUT_no_changes ==
    <<"N","o"," ","c","h","a","n","g","e","s"," ","a","p","p","l","i","e","d"," ","(","n","o",
      " ","p","a","t","c","h"," ","f","l","a","g","s"," ","p","r","o","v","i","d","e","d",")",
      ".">>
\* the string "Updated: "
OUT_updated ==
    <<"U","p","d","a","t","e","d",":"," ">>

\* a variant of PatchAndSave without the return on `!changed`
PatchAndSaveUnchangedToo(fs, lid, a, d) ==
    IF Truthy(a.ask) /\ parseYesNo(a.ask) = Died
    THEN [files |-> fs, out |-> die("update", lid, <<MSG_bad_yes_no>>)]
    ELSE LET rec == Stamp(ApplyEdits(fs[lid].doc, a).rec, d)
             invalid == RevalidatePatched(rec)
         IN  IF invalid # NoError
             THEN [files |-> fs, out |-> die("update", lid, invalid)]
             ELSE [files |-> [fs EXCEPT ![lid] = Json(rec)],
                   out |-> Exit("update", lid, 0, <<OUT_updated \o FilePath(lid)>>,
                                WarningLines(softValidateLedgerRecord(rec)))]

\* lines 459-587, on the record loadLedger returned
PatchAndSave(fs, lid, a, d) ==
    IF Truthy(a.ask) /\ parseYesNo(a.ask) = Died
    THEN [files |-> fs, out |-> die("update", lid, <<MSG_bad_yes_no>>)]
    ELSE LET p == ApplyEdits(fs[lid].doc, a)
             rec == Stamp(p.rec, d)
             invalid == RevalidatePatched(rec)
         IN  IF ~p.changed
             THEN [files |-> fs,
                   out |-> Exit("update", lid, 0, <<OUT_no_changes>>, <<>>)]
             ELSE IF invalid # NoError
             THEN [files |-> fs, out |-> die("update", lid, invalid)]
             ELSE [files |-> [fs EXCEPT ![lid] = Json(rec)],
                   out |-> Exit("update", lid, 0, <<OUT_updated \o FilePath(lid)>>,
                                WarningLines(softValidateLedgerRecord(rec)))]

\* --lid is given
UpdateResult(fs, lid, a, d) ==
    IF loadLedgerError(fs, lid) # NoError
    THEN [files |-> fs, out |-> die("update", lid, loadLedgerError(fs, lid))]
    ELSE PatchAndSave(fs, lid, a, d)

(***************************************************************************)
(* Inputs: the identifiers, flag values and hand-written files the         *)
(* commands are run with.                                                  *)
(***************************************************************************)
\* the string "T1"
LID_T1 ==
    <<"T","1">>
\* the string "ABC"
LID_ABC ==
    <<"A","B","C">>
Stems == {LID_T1, LID_ABC}

\* the string "P"
IN_P ==
    <<"P">>
\* the string "Q"
IN_Q ==
    <<"Q">>
\* the string "S"
IN_S ==
    <<"S">>
\* the string "  "
IN_blank ==
    <<" "," ">>
\* the string "X"
IN_X ==
    <<"X">>
\* the string "Y"
IN_Y ==
    <<"Y">>
\* the string "c"
IN_c ==
    <<"c">>
\* the string "n"
IN_n ==
    <<"n">>
\* the string " Yes "
IN_yes ==
    <<" ","Y","e","s"," ">>
\* the string "no"
IN_no ==
    <<"n","o">>
\* the string "maybe"
IN_maybe ==
    <<"m","a","y","b","e">>
\* the string "2025-01-01"
IN_created ==
    <<"2","0","2","5","-","0","1","-","0","1">>
\* the string "keep"
IN_keep ==
    <<"k","e","e","p">>

InitArgs ==
    [lid : Stems,
     project : {Undef, Str(IN_P), Str(IN_blank)},
     summary : {Undef, Str(IN_S)},
     goal : {<<>>, <<IN_X, IN_Y>>},
     constraint : {<<>>, <<IN_c>>},
     force : BOOLEAN]

AllUpdateArgs ==
    [summary : {Undef, Str(IN_S), Str(IN_blank), Arr(<<IN_S, IN_S>>)},
     project : {Undef, Str(IN_Q), Str(IN_blank)},
     addGoal : {<<>>, <<IN_X>>},
     removeGoal : {<<>>, <<IN_X>>},
     addConstraint : {<<>>, <<IN_c>>},
     removeConstraint : {<<>>, <<IN_c>>},
     ask : {Undef, Str(IN_yes), Str(IN_no), Str(IN_maybe)},
     addNote : {<<>>, <<IN_n>>, <<IN_n, IN_n>>}]

\* the number of edit flags an update is given
FlagCount(a) ==
    Cardinality({k \in {"summary", "project", "ask"} : a[k] # Undef})
      + Cardinality({k \in {"addGoal", "removeGoal", "addConstraint",
                            "removeConstraint", "addNote"} : a[k] # <<>>})

\* (enumerated once)
UpdateArgs == {a : a \in {b \in AllUpdateArgs : FlagCount(b) <= MaxFlags}}

\* a hand-written record: the four required fields and what else is given
HandWritten(lid, project, created, summary) ==
    [NullRec EXCEPT !.t = "object", !.lid = lid, !.project = project,
                    !.created_at = created, !.summary = summary]

\* the record init writes for ABC on day 1, with two goals
REC_template ==
    initLedgerEntry(Str(LID_ABC), Str(IN_P), Undef, Arr(<<IN_X, IN_Y>>), Undef,
                    [year |-> 2026, month |-> 0, date |-> 1,
                     hours |-> 9, minutes |-> 30, seconds |-> 5])

\* a record written by hand: the required fields, a key the program does not
\* know, a string where goals, where style and where last_state.notes should
\* be, nothing else
REC_odd ==
    [HandWritten(Str(LID_ABC), Str(IN_Q), Str(IN_created), Str(IN_S))
        EXCEPT !.goals = Str(IN_X), !.style = NotObject("string"),
               !.last_state = LastStateObj(Undef, Str(IN_keep)),
               !.extra = Str(IN_keep)]

\* a record written by hand, as wake and list read it
REC_minimal ==
    [HandWritten(Str(LID_ABC), Str(IN_P), Str(IN_created), Str(IN_S))
        EXCEPT !.goals = Arr(<<IN_X>>)]

\* a record without a project
REC_no_project ==
    HandWritten(Str(LID_ABC), Undef, Str(IN_created), Str(IN_S))

RequiredInputs ==
    {HandWritten(l, p, c, s) :
        l \in {Undef, Str(<<>>), Str(IN_blank), Str(LID_T1), Str(LID_ABC), Num(7)},
        p \in {Undef, Null, Str(<<>>), Str(IN_blank), Str(IN_P)},
        c \in {Undef, Str(<<>>), Str(IN_blank), Str(IN_created), Num(0)},
        s \in {Undef, Str(<<>>), Str(IN_blank), Str(IN_S)}}

StyleInputs ==
    {NotObject("undefined"), NotObject("null"), NotObject("string")}
      \cup {StyleObj(Undef, Undef, ask) :
               ask \in {Undef, Null, Bool(TRUE), Bool(FALSE), Str(IN_no),
                        Str(<<>>), Num(0)}}

OptionalInputs ==
    {[REC_minimal EXCEPT !.style = st, !.last_state = ls, !.goals = g] :
        st \in StyleInputs,
        ls \in {NoLastState("undefined"), LastStateObj(Undef, Str(IN_n)),
                LastStateObj(Str(IN_created), Arr(<<IN_n>>))},
        g \in {Undef, Str(IN_X), Arr(<<IN_X>>)}}

(***************************************************************************)
(* The commands as actions.                                                *)
(***************************************************************************)
InitCmd ==
    \E a \in InitArgs, d \in Clock :
        LET r == InitResult(files, a, d)
        IN  files' = r.files /\ out' = r.out

Wake ==
    \E lid \in Stems, json \in BOOLEAN :
        LET r == WakeResult(files, lid, json)
        IN  files' = r.files /\ out' = r.out

List ==
    \E order \in ReaddirOrders(files), json \in BOOLEAN :
        LET r == ListResult(files, order, json)
        IN  files' = r.files /\ out' = r.out

\* the model does not grow goals beyond MaxGoals, constraints beyond
\* MaxConstraints
WithinBounds(rec, a) ==
    /\ Len(a.addGoal) # 0 =>
          Len(ArrayOrEmpty(rec.goals)) + Len(a.addGoal) <= MaxGoals
    /\ Len(a.addConstraint) # 0 =>
          Len(ArrayOrEmpty(rec.constraints)) + Len(a.addConstraint) <= MaxConstraints

\* when loadLedger dies, the flags and the clock are not read
Update ==
    \E lid \in Stems :
        IF loadLedgerError(files, lid) # NoError
        THEN /\ files' = files
             /\ out' = die("update", lid, loadLedgerError(files, lid))
        ELSE \E a \in UpdateArgs, d \in Clock :
                /\ WithinBounds(files[lid].doc, a)
                /\ LET r == PatchAndSave(files, lid, a, d)
                   IN  files' = r.files /\ out' = r.out

(***************************************************************************)
(* Specifications.                                                         *)
(***************************************************************************)
EmptyDir == [l \in Stems |-> Absent]

\* the whole program, from a directory that is empty or holds one file that
\* was not written by init
Init ==
    /\ files \in {EmptyDir} \cup
                 {[EmptyDir EXCEPT ![LID_ABC] = f] :
                     f \in {Corrupt, Json(NullRec), Json(REC_no_project)}}
    /\ out = NoOut
Next == InitCmd \/ Update \/ Wake \/ List
Spec == Init /\ [][Next]_vars

\* init, wake and list
NextCli == InitCmd \/ Wake \/ List
SpecCli == Init /\ [][NextCli]_vars

\* update, on a record init wrote and on records written by hand
InitUpdate ==
    /\ files \in {[EmptyDir EXCEPT ![LID_ABC] = Json(r)] :
                     r \in {REC_template, REC_odd}}
    /\ out = NoOut
NextUpdate == Update
SpecUpdate == InitUpdate /\ [][NextUpdate]_vars

\* hard validation and compilation, on hand-written records of every shape
InitValidate ==
    /\ files \in {[EmptyDir EXCEPT ![LID_ABC] = Json(r)] :
                     r \in RequiredInputs \cup OptionalInputs \cup {NullRec}}
    /\ out = NoOut
NextValidate == Wake
SpecValidate == InitValidate /\ [][NextValidate]_vars

(***************************************************************************)
(* Properties.                                                             *)
(***************************************************************************)
\* the file of stem l holds a record that passes hard validation
PassesHardValidation(fs, l) ==
    fs[l].kind = "json" /\ hardValidateLedgerRecord(fs[l].doc) = NoError

\* the notes of a record, [] when it has none
NotesOf(rec) == ArrayOrEmpty(rec.last_state.notes)

\* how often x occurs in the sequence xs
Count(x, xs) == Cardinality({i \in 1..Len(xs) : xs[i] = x})

\* update printed "Updated: <path>": it wrote the file
Wrote(o) ==
    o.cmd = "update" /\ o.code = 0 /\ o.stdout = <<OUT_updated \o FilePath(o.lid)>>

\* update printed "No changes applied"
ReportedNoChanges(o) ==
    o.cmd = "update" /\ o.code = 0 /\ o.stdout = <<OUT_no_changes>>

NoEdits ==
    [summary |-> Undef, project |-> Undef, addGoal |-> <<>>, removeGoal |-> <<>>,
     addConstraint |-> <<>>, removeConstraint |-> <<>>, ask |-> Undef,
     addNote |-> <<>>]

----------------------------------------------------------------------------
\* C1: an update that carries only --add-note N, N not yet among the notes of
\* the record, does not end as "no changes": the file is written with N
\* among its notes, and last_state.as_of and modified_at are stamped.
C1_AddNoteCountsAsChange ==
    [][\A l \in Stems, d \in Clock :
          LET r == UpdateResult(files, l, [NoEdits EXCEPT !.addNote = <<IN_n>>], d)
          IN  (/\ PassesHardValidation(files, l)
               /\ ~includes(NotesOf(files[l].doc), IN_n)
               /\ files' = r.files /\ out' = r.out)
              => (/\ ~ReportedNoChanges(out')
                  /\ includes(NotesOf(files'[l].doc), IN_n)
                  /\ files'[l].doc.last_state.as_of = Str(todayISO(d))
                  /\ files'[l].doc.modified_at = Str(nowISO(d)))]_vars

----------------------------------------------------------------------------
\* a required field that is absent, or blank after trimming
AbsentOrBlank(v) == Nullish(v) \/ (IsString(v) /\ trim(v.s) = <<>>)
\* a required field that is absent or empty: undefined, null, "", 0 or false
AbsentOrEmpty(v) ==
    \/ Nullish(v)
    \/ (v.t = "string" /\ Len(v.s) = 0)
    \/ (v.t = "number" /\ v.n = 0)
    \/ (v.t = "boolean" /\ v.b = FALSE)

\* what wake leaves when hard validation reports exactly the fields ks
ReportsMissing(o, ks) ==
    o.code # 0 /\ o.stdout = <<>>
    /\ o.stderr = <<STR_ulc \o MSG_missing \o JoinNames(ks)>>

\* the last invocation was a wake of a file that holds a JSON document
WokeDocument ==
    out.cmd = "wake" /\ out.lid \in Stems /\ files[out.lid].kind = "json"

\* C2 as stated: when some of lid, project, created_at, summary are absent or
\* blank after trimming, hard validation fails and lists exactly those fields.
C2_ListsAbsentOrBlank ==
    WokeDocument =>
        LET ks == SelectSeq(required,
                      LAMBDA k : AbsentOrBlank(Field(files[out.lid].doc, k)))
        IN  ks # <<>> => ReportsMissing(out, ks)

\* C2, amended: when some of lid, project, created_at, summary are absent or
\* empty (undefined, null, "", 0, false), hard validation fails and lists
\* exactly those fields, in the order lid, project, created_at, summary.
C2_ListsAbsentOrEmpty ==
    WokeDocument =>
        LET ks == SelectSeq(required,
                      LAMBDA k : AbsentOrEmpty(Field(files[out.lid].doc, k)))
        IN  ks # <<>> => ReportsMissing(out, ks)

\* a wake has failed on a record without lid and with an empty summary, and
\* reported both fields
C2_Witness ==
    /\ WokeDocument
    /\ files[out.lid].doc.lid = Undef
    /\ files[out.lid].doc.summary = Str(<<>>)
    /\ Truthy(files[out.lid].doc.project) /\ Truthy(files[out.lid].doc.created_at)
    /\ ReportsMissing(out, <<"lid", "summary">>)

----------------------------------------------------------------------------
\* wake without --json succeeded on lid: text that begins with
\* [CONTEXT_BLOCK_START], holds "Ledger ID: <lid>" and a Summary section with
\* the placeholder, and on stderr the warning about the TODO summary
WakeShowsTemplate(o, lid) ==
    /\ o.cmd = "wake" /\ o.code = 0 /\ ~o.json
    /\ o.stdout # <<>> /\ o.stdout[1] = LINE_start
    /\ includes(o.stdout, LINE_lid \o lid)
    /\ \E i \in 1..(Len(o.stdout) - 1) :
          /\ o.stdout[i] = LINE_summary
          /\ o.stdout[i + 1] = STR_bullet \o PLACEHOLDER_summary
    /\ includes(o.stderr, STR_warning \o WARN_todo_summary)

\* this step is a wake without --json of the identifier the init before it
\* created
WakeAfterInit ==
    /\ out.cmd = "init" /\ out.code = 0
    /\ files' = files
    /\ out' = WakeResult(files, out.lid, FALSE).out

\* C3 as stated: after a successful init of L, a wake of L without --json
\* succeeds and shows the template.
C3_WakeAfterAnyInit ==
    [][WakeAfterInit => WakeShowsTemplate(out', out.lid)]_vars

\* C3, amended: after a successful init of L with project P, L at least 3
\* characters long after trimming and P not blank after trimming, a wake of
\* L without --json succeeds and shows the template.
C3_WakeAfterInit ==
    [][(/\ WakeAfterInit
        /\ Len(trim(out.lid)) >= 3
        /\ trim(ToStr(files[out.lid].doc.project)) # <<>>)
       => WakeShowsTemplate(out', out.lid)]_vars

\* a wake of ABC has shown the template that init wrote
C3_Witness ==
    /\ WakeShowsTemplate(out, LID_ABC)
    /\ out.lid = LID_ABC
    /\ files[LID_ABC].doc.summary = Str(PLACEHOLDER_summary)
    /\ NotesOf(files[LID_ABC].doc) = <<INIT_note>>

----------------------------------------------------------------------------
\* the entries of the files that hold a record with lid and project
ListableEntries ==
    {ListEntry(l, files[l].doc) :
        l \in {s \in Stems : /\ files[s].kind = "json"
                             /\ Truthy(Field(files[s].doc, "lid"))
                             /\ Truthy(Field(files[s].doc, "project"))}}

\* C4: list never fails: it skips the files that do not parse and the records
\* without lid or project, and returns exactly the entries of the other files.
C4_ListSkipsBadFiles ==
    out.cmd = "list" =>
        /\ out.code = 0
        /\ out.json =>
              /\ {out.entries[i] : i \in 1..Len(out.entries)} = ListableEntries
              /\ Len(out.entries) = Cardinality(ListableEntries)

----------------------------------------------------------------------------
\* C5: the packet's style.ask_when_uncertain is the record's value when that
\* is a boolean, and true when it is absent or no boolean.
C5_AskWhenUncertainIsBoolean ==
    (out.cmd = "wake" /\ out.code = 0 /\ out.json) =>
        LET v == files[out.lid].doc.style.ask_when_uncertain
        IN  out.packet.style.ask_when_uncertain
               = IF v.t = "boolean" THEN v ELSE Bool(TRUE)

----------------------------------------------------------------------------
\* what the edit flags of update work on: the values of the record that an
\* edit can alter, without the stamps
EditedValues(rec) ==
    [summary |-> rec.summary, project |-> rec.project,
     goals |-> ArrayOrEmpty(rec.goals), constraints |-> ArrayOrEmpty(rec.constraints),
     ask |-> rec.style.ask_when_uncertain, notes |-> NotesOf(rec)]

\* C6 as stated: an update writes the file and stamps modified_at only if one
\* of its edits alters a value of the record; --summary equal to the current
\* summary reports no changes and writes nothing.
C6_WritesOnlyWhenAltered ==
    [][Wrote(out') =>
          EditedValues(files'[out'.lid].doc) # EditedValues(files[out'.lid].doc)]_vars

\* the flags that set `changed` whatever their value, and the remove flags
\* that find one of their values in the list
CarriesChange(rec, a) ==
    \/ a.summary # Undef \/ a.project # Undef \/ a.ask # Undef
    \/ a.addGoal # <<>> \/ a.addConstraint # <<>>
    \/ \E i \in 1..Len(a.removeGoal) : includes(ArrayOrEmpty(rec.goals), a.removeGoal[i])
    \/ \E i \in 1..Len(a.removeConstraint) :
          includes(ArrayOrEmpty(rec.constraints), a.removeConstraint[i])

\* C6, amended: an update writes the file and stamps modified_at only if it
\* carries --summary, --project, --add-goal, --add-constraint or
\* --ask-when-uncertain, or a --remove-goal or --remove-constraint that
\* shortens its list; and an accepted update that carries one of these writes
\* and stamps even when the value it gives is the current one.
C6_WritesWhenFlagged ==
    \A l \in Stems, a \in UpdateArgs, d \in Clock :
        PassesHardValidation(files, l) =>
            LET r == UpdateResult(files, l, a, d)
            IN  /\ Wrote(r.out) => CarriesChange(files[l].doc, a)
                /\ (CarriesChange(files[l].doc, a) /\ r.out.code = 0) =>
                      /\ Wrote(r.out)
                      /\ r.files[l].doc.modified_at = Str(nowISO(d))

\* an update has written a record that is REC_odd but for the stamps: the
\* values it gave were the current ones
C6_Witness ==
    /\ Wrote(out) /\ out.lid = LID_ABC
    /\ \E d \in Clock : files[LID_ABC].doc = Stamp(REC_odd, d)

----------------------------------------------------------------------------
\* C7: the record init writes has the summary of --summary when one is
\* given and the placeholder otherwise, and the goals of --goal when some are
\* given and the placeholder goals otherwise.
C7_InitUsesSuppliedValues ==
    [][\A a \in InitArgs, d \in Clock :
          LET r == InitResult(files, a, d)
          IN  (r.out.code = 0 /\ files' = r.files /\ out' = r.out)
              => /\ files'[a.lid].doc.summary
                       = IF a.summary = Undef THEN Str(PLACEHOLDER_summary)
                         ELSE a.summary
                 /\ files'[a.lid].doc.goals
                       = IF a.goal = <<>> THEN Arr(<<STR_TODO, STR_TODO>>)
                         ELSE Arr(a.goal)]_vars

----------------------------------------------------------------------------
\* C8: an update never leaves a note in last_state.notes more often than it
\* was there before, or than once: a note passed to --add-note again, in the
\* same invocation or in a later one, is not appended again.
C8_NotesAddedOnce ==
    [][out'.cmd = "update" =>
          \A l \in Stems :
              LET before == NotesOf(files[l].doc)
                  after == NotesOf(files'[l].doc)
              IN  \A i \in 1..Len(after) :
                      Count(after[i], after)
                         <= IF Count(after[i], before) = 0 THEN 1
                            ELSE Count(after[i], before)]_vars

\* an update has written a record whose notes hold the note n once
C8_Witness ==
    /\ Wrote(out)
    /\ Count(IN_n, NotesOf(files[out.lid].doc)) = 1

----------------------------------------------------------------------------
\* C9: an update leaves a stored record that passes hard validation passing
\* it, and an update that fails leaves the files as they were.
C9_UpdateKeepsRecordValid ==
    [][out'.cmd = "update" =>
          /\ \A l \in Stems :
                PassesHardValidation(files, l) => PassesHardValidation(files', l)
          /\ out'.code # 0 => files' = files]_vars

\* an update with a blank summary has been rejected, and the stored record
\* passes hard validation
C9_Witness ==
    /\ out.cmd = "update" /\ out.code = 1
    /\ out.stderr = <<STR_ulc \o MSG_bad_summary>>
    /\ PassesHardValidation(files, out.lid)

----------------------------------------------------------------------------
YesNoWords == {STR_yes, STR_true, STR_1, STR_no, STR_false, STR_0}

\* update a on the stored record of l fails and leaves the files as they were
Rejected(l, a, d) ==
    LET r == UpdateResult(files, l, a, d)
    IN  r.files = files /\ r.out.code # 0 /\ r.out.stdout = <<>> /\ r.out.stderr # <<>>

\* C10 as stated: an update whose --ask-when-uncertain value is, letter case
\* aside, none of yes, true, 1, no, false, 0 is rejected and leaves the stored
\* record unchanged, whatever other edits it carries.
C10_RejectsOtherValues ==
    [][\A l \in Stems, a \in UpdateArgs, d \in Clock :
          LET r == UpdateResult(files, l, a, d)
          IN  (/\ a.ask # Undef /\ toLowerCase(a.ask.s) \notin YesNoWords
               /\ files' = r.files /\ out' = r.out)
              => (files' = files /\ out'.code # 0)]_vars

\* C10, amended: an update whose --ask-when-uncertain value is, letter case
\* and surrounding white space aside, none of yes, true, 1, no, false, 0 is
\* rejected and leaves the stored record unchanged, whatever other edits it
\* carries.
C10_RejectsOtherTrimmedValues ==
    \A l \in Stems, a \in UpdateArgs, d \in Clock :
        (a.ask # Undef /\ toLowerCase(trim(a.ask.s)) \notin YesNoWords)
            => Rejected(l, a, d)

\* an update has been rejected for its --ask-when-uncertain value
C10_Witness ==
    /\ out.cmd = "update" /\ out.code = 1
    /\ out.stderr = <<STR_ulc \o MSG_bad_yes_no>>
    /\ PassesHardValidation(files, out.lid)

----------------------------------------------------------------------------
\* the elements of gs that equal none of the values of remove, in the order
\* they have in gs
WithoutValues(gs, remove) ==
    SelectSeq(gs, LAMBDA g : g \notin {remove[i] : i \in 1..Len(remove)})

\* C11: an update with --remove-goal writes as goals the goals it found (with
\* the goals of --add-goal behind them) without every element that equals a
\* requested value, the others in their order; and an update that carries
\* --remove-goal only is written when goals got shorter and reports no
\* changes, writing nothing, when it did not.
C11_RemoveGoalRemovesAll ==
    \A l \in Stems, a \in UpdateArgs, d \in Clock :
        (PassesHardValidation(files, l) /\ a.removeGoal # <<>>) =>
            LET r == UpdateResult(files, l, a, d)
                found == ArrayOrEmpty(files[l].doc.goals) \o a.addGoal
                left == WithoutValues(found, a.removeGoal)
            IN  /\ Wrote(r.out) => r.files[l].doc.goals = Arr(left)
                /\ a = [NoEdits EXCEPT !.removeGoal = a.removeGoal] =>
                      IF Len(left) # Len(found)
                      THEN Wrote(r.out)
                      ELSE ReportedNoChanges(r.out) /\ r.files = files

\* goals were X, Y, X (the second X added by an update) or X, Y, and an
\* update has removed every X: Y is what is left
C11_Witness ==
    /\ Wrote(out) /\ out.lid = LID_ABC
    /\ files[LID_ABC].doc.project = Str(IN_P)
    /\ files[LID_ABC].doc.goals = Arr(<<IN_Y>>)

----------------------------------------------------------------------------
\* C12: init of an identifier whose file exists fails without --force, names
\* --force in its message, and leaves the file as it was; with --force (and a
\* project) it succeeds and the file holds the new template record.
C12_InitNeedsForce ==
    \A a \in InitArgs, d \in Clock :
        files[a.lid].kind # "absent" =>
            LET r == InitResult(files, a, d)
            IN  /\ ~a.force =>
                      /\ r.out.code # 0 /\ r.out.stdout = <<>>
                      /\ r.files = files
                      /\ Truthy(a.project) => includes(r.out.stderr, MSG_use_force)
                /\ (a.force /\ Truthy(a.project)) =>
                      /\ r.out.code = 0
                      /\ r.files[a.lid].kind = "json"
                      /\ r.files[a.lid].doc.project = a.project
                      /\ r.files[a.lid].doc.created_at = Str(todayISO(d))
                      /\ NotesOf(r.files[a.lid].doc) = <<INIT_note>>
                      /\ \A l \in Stems \ {a.lid} : r.files[l] = files[l]

\* init of ABC has failed for want of --force, and ABC.json still holds the
\* hand-written record it held
C12_Witness ==
    /\ out.cmd = "init" /\ out.lid = LID_ABC /\ out.code = 1
    /\ includes(out.stderr, MSG_use_force)
    /\ files[LID_ABC] = Json(REC_no_project)

----------------------------------------------------------------------------
\* C13: an update without edit flags writes nothing: the files are what they
\* were, modified_at and last_state.as_of included; and on a record that
\* loads it reports no changes.
C13_NoFlagsNoWrite ==
    \A l \in Stems, d \in Clock :
        LET r == UpdateResult(files, l, NoEdits, d)
        IN  /\ r.files = files
            /\ PassesHardValidation(files, l) =>
                  ReportedNoChanges(r.out) /\ r.out.stderr = <<>>

\* an update has reported no changes on the record of init, which has never
\* been written by an update: it has no modified_at and the as_of of init
C13_Witness ==
    /\ ReportedNoChanges(out) /\ out.lid = LID_ABC
    /\ files[LID_ABC] = Json(REC_template)
    /\ files[LID_ABC].doc.modified_at = Undef

----------------------------------------------------------------------------
\* xs is the beginning of ys
IsPrefix(xs, ys) == Len(xs) <= Len(ys) /\ \A i \in 1..Len(xs) : ys[i] = xs[i]

\* update a has left alone what no flag of a targets, last_state aside: lid,
\* created_at and the unknown key always, and summary, project, goals,
\* constraints, style and the keys of style other than ask_when_uncertain
\* when a has no flag for them
KeepsUntargeted(before, after, a) ==
    /\ after.lid = before.lid
    /\ after.created_at = before.created_at
    /\ after.extra = before.extra
    /\ a.summary = Undef => after.summary = before.summary
    /\ a.project = Undef => after.project = before.project
    /\ (a.addGoal = <<>> /\ a.removeGoal = <<>>) => after.goals = before.goals
    /\ (a.addConstraint = <<>> /\ a.removeConstraint = <<>>)
          => after.constraints = before.constraints
    /\ a.ask = Undef => after.style = before.style
    /\ after.style.tone = before.style.tone
    /\ after.style.format = before.style.format

\* update a has left last_state.notes as it was, and with --add-note has
\* left the notes that were there in front of the ones it added
KeepsNotes(before, after, a) ==
    IF a.addNote = <<>>
    THEN after.last_state.notes = before.last_state.notes
    ELSE /\ IsArray(after.last_state.notes)
         /\ IsPrefix(NotesOf(before), NotesOf(after))

\* the same, but notes that were absent or no array are now []
KeepsNotesArray(before, after, a) ==
    /\ IsArray(after.last_state.notes)
    /\ IF a.addNote = <<>>
       THEN NotesOf(after) = NotesOf(before)
       ELSE IsPrefix(NotesOf(before), NotesOf(after))

====
